---- MODULE Spec2Model ----
(***************************************************************************)
(* nfu: a model of src/nfu.go.                                             *)
(*                                                                         *)
(* ParseDuration turns a duration string into a time.Duration, and         *)
(* calculateTotalDuration sums the "duration" column of a tab-separated    *)
(* trace file.  main prints the total or the error.                        *)
(*                                                                         *)
(* A Go string is a sequence of characters, each character a TLA+ string.  *)
(* The four non-ASCII characters the code meets are written by their code  *)
(* point: "U+00B5" is the micro sign, "U+03BC" the Greek small mu,         *)
(* "U+00C2" is A-circumflex and "U+00E2" its lower case.  The unit the     *)
(* switch of ParseDuration spells with the bytes C3 82 C2 B5 73 is the     *)
(* three characters <<"U+00C2", "U+00B5", "s">>.                           *)
(*                                                                         *)
(* A time.Duration is an int64 count of nanoseconds.  It is kept as a      *)
(* record [sec, nsec] that stands for sec * Second + nsec nanoseconds with *)
(* 0 <= nsec < Second, so that hours and days stay inside the integers of  *)
(* the model checker.  The digit strings of the model are short, so no     *)
(* value comes near the ends of int64, and their fractional parts are      *)
(* dyadic (.5, .25), for which the float64 product value * float64(unit)   *)
(* is exact and its conversion to Duration is the truncation computed here.*)
(***************************************************************************)
EXTENDS Integers, Sequences, FiniteSets

VARIABLES
    durationStr,    \* ParseDuration's argument
    pc,             \* where the program stands
    ret,            \* what ParseDuration / calculateTotalDuration returned
    file,           \* the input file: a sequence of lines (without the newline)
    ioFault,        \* 0: none; -1: the file cannot be opened; k: the read of line k fails
    lineNo,         \* lines the scanner has delivered so far
    durationIdx,    \* index of the duration column (0-based), -1 before it is found
    totalDuration,  \* the running total of calculateTotalDuration
    stdout,         \* what was printed on standard output
    stderr,         \* what was printed on standard error
    exitCode        \* -1 while running, then the exit status of main

vars == <<durationStr, pc, ret, file, ioFault, lineNo, durationIdx,
          totalDuration, stdout, stderr, exitCode>>

---------------------------------------------------------------------------
(* Bounds of the model *)

\* digits before the decimal point of a generated number
MaxIntDigits == 2
\* whitespace-separated tokens of a generated composite string
MaxTokens == 3
\* data rows of a generated file
MaxRows == 3

---------------------------------------------------------------------------
(* Characters *)

LowerLetters ==
    <<"a","b","c","d","e","f","g","h","i","j","k","l","m",
      "n","o","p","q","r","s","t","u","v","w","x","y","z">>

UpperLetters ==
    <<"A","B","C","D","E","F","G","H","I","J","K","L","M",
      "N","O","P","Q","R","S","T","U","V","W","X","Y","Z">>

DigitChars == <<"0","1","2","3","4","5","6","7","8","9">>

Range(f) == {f[i] : i \in DOMAIN f}

\* regexp \d, and the '0' <= c <= '9' of time.ParseDuration
DigitSet == Range(DigitChars)

IsDigit(c) == c \in DigitSet

\* regexp [\d\.]
DigitOrDotSet == DigitSet \cup {"."}

IsDigitOrDot(c) == c \in DigitOrDotSet

\* regexp [a-zA-Z]
IsAsciiLetter(c) == c \in Range(LowerLetters) \/ c \in Range(UpperLetters)

\* unicode.IsSpace, which strings.Fields splits on
SpaceSet == {" ", "\t"}

IsSpace(c) == c \in SpaceSet

\* regexp \s
ReSpaceSet == {" ", "\t"}

DigitVal(c) == (CHOOSE i \in DOMAIN DigitChars : DigitChars[i] = c) - 1

\* unicode.ToLower of one character
ToLowerChar(c) ==
    IF c \in Range(UpperLetters)
    THEN LowerLetters[CHOOSE i \in DOMAIN UpperLetters : UpperLetters[i] = c]
    ELSE IF c = "U+00C2" THEN "U+00E2" ELSE c

\* unicode.ToUpper of one character (used to build the inputs)
ToUpperChar(c) ==
    IF c \in Range(LowerLetters)
    THEN UpperLetters[CHOOSE i \in DOMAIN LowerLetters : LowerLetters[i] = c]
    ELSE IF c = "U+00E2" THEN "U+00C2" ELSE c

\* strings.ToLower
ToLower(s) == [i \in DOMAIN s |-> ToLowerChar(s[i])]

ToUpper(s) == [i \in DOMAIN s |-> ToUpperChar(s[i])]

\* the length of the longest prefix of s whose characters are all in S
PrefixIn(s, S) ==
    CHOOSE k \in 0..Len(s) :
        /\ \A i \in 1..k : s[i] \in S
        /\ (k = Len(s) \/ s[k + 1] \notin S)

\* the length of the longest prefix of s with no character in S
PrefixNotIn(s, S) ==
    CHOOSE k \in 0..Len(s) :
        /\ \A i \in 1..k : s[i] \notin S
        /\ (k = Len(s) \/ s[k + 1] \in S)

Drop(s, k) == SubSeq(s, k + 1, Len(s))

Take(s, k) == SubSeq(s, 1, k)

---------------------------------------------------------------------------
(* time.Duration *)

\* time.Second, in nanoseconds
Second == 1000000000

Dur(sec, nsec) == [sec |-> sec, nsec |-> nsec]

ZeroDur == Dur(0, 0)

Nanosecond  == Dur(0, 1)
Microsecond == Dur(0, 1000)
Millisecond == Dur(0, 1000000)
OneSecond   == Dur(1, 0)
Minute      == Dur(60, 0)
Hour        == Dur(3600, 0)

\* a + b
DAdd(a, b) ==
    LET n == a.nsec + b.nsec
    IN  Dur(a.sec + b.sec + (n \div Second), n % Second)

\* -a
DNeg(a) ==
    IF a.nsec = 0 THEN Dur(-a.sec, 0) ELSE Dur(-a.sec - 1, Second - a.nsec)

IsNegative(a) == a.sec < 0

\* n * unit for a natural n and one of the units above
MulInt(n, unit) ==
    IF unit.nsec = 0
    THEN Dur(n * unit.sec, 0)
    ELSE LET per == Second \div unit.nsec
         IN  Dur(n \div per, (n % per) * unit.nsec)

\* a / 10, truncated, for a >= 0
Div10(a) ==
    Dur(a.sec \div 10, (a.sec % 10) * (Second \div 10) + (a.nsec \div 10))

RECURSIVE DivPow10(_, _)
\* a / 10^k, truncated, for a >= 0
DivPow10(a, k) == IF k = 0 THEN a ELSE DivPow10(Div10(a), k - 1)

RECURSIVE DecVal(_)
\* the value of a string of digits (0 for the empty string)
DecVal(s) ==
    IF s = <<>> THEN 0
    ELSE 10 * DecVal(Take(s, Len(s) - 1)) + DigitVal(s[Len(s)])

\* (ip + fp / 10^Len(frac)) * unit, truncated to whole nanoseconds
ScaleDecimal(int, frac, unit) ==
    DAdd(MulInt(DecVal(int), unit),
         DivPow10(MulInt(DecVal(frac), unit), Len(frac)))

---------------------------------------------------------------------------
(* Results: a (time.Duration, error) pair *)

Ok(d) == [err |-> "nil", d |-> d]

Err(e) == [err |-> e, d |-> ZeroDur]

IsOk(r) == r.err = "nil"

---------------------------------------------------------------------------
(* time.ParseDuration of the Go standard library, which ParseDuration calls *)
(* first on the whole string and then on every part                        *)

\* unitMap of package time
StdUnitMap(u) ==
    CASE u = <<"n","s">>      -> <<Nanosecond>>
      [] u = <<"u","s">>      -> <<Microsecond>>
      [] u = <<"U+00B5","s">> -> <<Microsecond>>
      [] u = <<"U+03BC","s">> -> <<Microsecond>>
      [] u = <<"m","s">>      -> <<Millisecond>>
      [] u = <<"s">>          -> <<OneSecond>>
      [] u = <<"m">>          -> <<Minute>>
      [] u = <<"h">>          -> <<Hour>>
      [] OTHER                -> <<>>

RECURSIVE StdPairs(_, _)
\* the loop of time.ParseDuration over ([0-9]*(\.[0-9]*)?[a-z]+)+
StdPairs(s, d) ==
    IF s = <<>> THEN Ok(d)
    ELSE IF ~IsDigitOrDot(s[1]) THEN Err("time: invalid duration")
    ELSE
      LET nv     == PrefixIn(s, DigitSet)
          s1     == Drop(s, nv)
          hasDot == s1 # <<>> /\ s1[1] = "."
          s2     == IF hasDot THEN Tail(s1) ELSE s1
          nf     == IF hasDot THEN PrefixIn(s2, DigitSet) ELSE 0
          s3     == Drop(s2, nf)
          i      == PrefixNotIn(s3, DigitOrDotSet)
          unit   == StdUnitMap(Take(s3, i))
      IN  IF nv = 0 /\ nf = 0 THEN Err("time: invalid duration")
          ELSE IF i = 0 THEN Err("time: missing unit in duration")
          ELSE IF unit = <<>> THEN Err("time: unknown unit")
          ELSE StdPairs(Drop(s3, i),
                        DAdd(d, ScaleDecimal(Take(s, nv), Take(s2, nf), unit[1])))

\* if neg { return -Duration(d), nil }
ApplySign(neg, r) == IF IsOk(r) /\ neg THEN Ok(DNeg(r.d)) ELSE r

\* time.ParseDuration: [-+]?([0-9]*(\.[0-9]*)?[a-z]+)+, or "0"
StdParseDuration(str) ==
    LET signed == str # <<>> /\ str[1] \in {"-", "+"}
        s      == IF signed THEN Tail(str) ELSE str
    IN  IF s = <<"0">> THEN Ok(ZeroDur)
        ELSE IF s = <<>> THEN Err("time: invalid duration")
        ELSE ApplySign(signed /\ str[1] = "-", StdPairs(s, ZeroDur))

---------------------------------------------------------------------------
(* ParseDuration *)

RECURSIVE Fields(_)
\* strings.Fields: the maximal runs of non-space characters
Fields(s) ==
    IF s = <<>> THEN <<>>
    ELSE IF IsSpace(s[1]) THEN Fields(Tail(s))
    ELSE LET k == PrefixNotIn(s, SpaceSet)
         IN  <<Take(s, k)>> \o Fields(Drop(s, k))

\* re.FindStringSubmatch for ^([\d\.]+)\s*([a-zA-Z]+)$ : <<whole, value, unit>>
\* on a match and <<>> otherwise
FindStringSubmatch(part) ==
    LET nv   == PrefixIn(part, DigitOrDotSet)
        rest == Drop(part, nv)
        nw   == PrefixIn(rest, ReSpaceSet)
        unit == Drop(rest, nw)
    IN  IF /\ nv >= 1
           /\ unit # <<>>
           /\ \A i \in DOMAIN unit : IsAsciiLetter(unit[i])
        THEN <<part, Take(part, nv), unit>>
        ELSE <<>>

\* strconv.ParseFloat on a string of digits and dots: <<int digits, fraction
\* digits>>, or <<>> for a syntax error (no digit, or a second dot)
ParseFloat(valueStr) ==
    LET nv     == PrefixIn(valueStr, DigitSet)
        s1     == Drop(valueStr, nv)
        hasDot == s1 # <<>> /\ s1[1] = "."
        s2     == IF hasDot THEN Tail(s1) ELSE s1
        nf     == PrefixIn(s2, DigitSet)
    IN  IF nv + nf >= 1 /\ Drop(s2, nf) = <<>>
        THEN <<Take(valueStr, nv), Take(s2, nf)>>
        ELSE <<>>

\* the switch on the lower-cased unit: the scaled, truncated duration
UnitSwitch(value, unit) ==
    CASE unit \in {<<"n","s">>,
                   <<"n","a","n","o","s","e","c","o","n","d">>,
                   <<"n","a","n","o","s","e","c","o","n","d","s">>}
           -> Ok(ScaleDecimal(value[1], value[2], Nanosecond))
      [] unit \in {<<"u","s">>,
                   <<"U+00C2","U+00B5","s">>,
                   <<"m","i","c","r","o","s","e","c","o","n","d">>,
                   <<"m","i","c","r","o","s","e","c","o","n","d","s">>}
           -> Ok(ScaleDecimal(value[1], value[2], Microsecond))
      [] unit \in {<<"m","s">>,
                   <<"m","i","l","l","i","s","e","c","o","n","d">>,
                   <<"m","i","l","l","i","s","e","c","o","n","d","s">>}
           -> Ok(ScaleDecimal(value[1], value[2], Millisecond))
      [] unit \in {<<"s">>, <<"s","e","c">>,
                   <<"s","e","c","o","n","d">>,
                   <<"s","e","c","o","n","d","s">>}
           -> Ok(ScaleDecimal(value[1], value[2], OneSecond))
      [] unit \in {<<"m">>, <<"m","i","n">>,
                   <<"m","i","n","u","t","e">>,
                   <<"m","i","n","u","t","e","s">>}
           -> Ok(ScaleDecimal(value[1], value[2], Minute))
      [] unit \in {<<"h">>, <<"h","r">>,
                   <<"h","o","u","r">>,
                   <<"h","o","u","r","s">>}
           -> Ok(ScaleDecimal(value[1], value[2], Hour))
      [] unit \in {<<"d">>, <<"d","a","y">>, <<"d","a","y","s">>}
           -> Ok(ScaleDecimal(value[1], value[2], MulInt(24, Hour)))
      [] OTHER -> Err("unknown time unit")

\* ConvertMatch with the error of strconv.ParseFloat ignored (the value is 0)
ConvertMatchUnchecked(value, unit) ==
    UnitSwitch(IF value = <<>> THEN <<<<>>, <<>>>> ELSE value, unit)

\* value, err := strconv.ParseFloat(valueStr, 64), then the switch
ConvertMatch(value, unit) ==
    IF value = <<>> THEN Err("error parsing duration value")
    ELSE UnitSwitch(value, unit)

\* ParseMatches with a part that does not match skipped instead of refused
ParseMatchesSkip(matches) ==
    IF Len(matches) # 3 THEN Ok(ZeroDur)
    ELSE IF ParseFloat(matches[2]) = <<>> THEN Err("error parsing duration value")
    ELSE UnitSwitch(ParseFloat(matches[2]), ToLower(matches[3]))

\* the non-standard format: the regular expression, then the conversion
ParseMatches(matches) ==
    IF Len(matches) # 3 THEN Err("unsupported duration format")
    ELSE ConvertMatch(ParseFloat(matches[2]), ToLower(matches[3]))

\* if err == nil { use the standard result } else { the fallback }
OrElse(std, fallback) == IF IsOk(std) THEN std ELSE fallback

\* the body of the loop over parts: the duration of one part
ParsePart(part) ==
    OrElse(StdParseDuration(part), ParseMatches(FindStringSubmatch(part)))

RECURSIVE SumDurations(_)
\* totalDuration += partDuration, over the parts parsed
SumDurations(rs) ==
    IF rs = <<>> THEN ZeroDur
    ELSE DAdd(SumDurations(Take(rs, Len(rs) - 1)), rs[Len(rs)].d)

\* Accumulate with totalDuration = partDuration in place of +=
AccumulateLast(rs) ==
    IF \E i \in DOMAIN rs : ~IsOk(rs[i])
    THEN rs[CHOOSE i \in DOMAIN rs :
                ~IsOk(rs[i]) /\ \A j \in 1..(i - 1) : IsOk(rs[j])]
    ELSE IF rs = <<>> THEN Ok(ZeroDur) ELSE Ok(rs[Len(rs)].d)

\* the loop over the parts' results: the error of the first part that fails,
\* or else the total
Accumulate(rs) ==
    IF \E i \in DOMAIN rs : ~IsOk(rs[i])
    THEN rs[CHOOSE i \in DOMAIN rs :
                ~IsOk(rs[i]) /\ \A j \in 1..(i - 1) : IsOk(rs[j])]
    ELSE Ok(SumDurations(rs))

\* for _, part := range parts { ... }; return totalDuration, nil
SumParts(parts) == Accumulate([i \in DOMAIN parts |-> ParsePart(parts[i])])

ParseDuration(str) == OrElse(StdParseDuration(str), SumParts(Fields(str)))

---------------------------------------------------------------------------
(* The strings ParseDuration is applied to *)

\* every sequence over the set S of length at most n
SeqsUpTo(S, n) == UNION {[1..k -> S] : k \in 0..n}

RECURSIVE Concat(_)
\* the concatenation of a sequence of strings
Concat(ss) == IF ss = <<>> THEN <<>> ELSE Head(ss) \o Concat(Tail(ss))

RECURSIVE Join(_, _)
\* strings.Join
Join(ss, sep) ==
    IF ss = <<>> THEN <<>>
    ELSE IF Len(ss) = 1 THEN ss[1]
    ELSE ss[1] \o sep \o Join(Tail(ss), sep)

\* the unit names of the switch of ParseDuration
SwitchUnits ==
    {<<"n","s">>,
     <<"n","a","n","o","s","e","c","o","n","d">>,
     <<"n","a","n","o","s","e","c","o","n","d","s">>,
     <<"u","s">>,
     <<"U+00C2","U+00B5","s">>,
     <<"m","i","c","r","o","s","e","c","o","n","d">>,
     <<"m","i","c","r","o","s","e","c","o","n","d","s">>,
     <<"m","s">>,
     <<"m","i","l","l","i","s","e","c","o","n","d">>,
     <<"m","i","l","l","i","s","e","c","o","n","d","s">>,
     <<"s">>, <<"s","e","c">>,
     <<"s","e","c","o","n","d">>,
     <<"s","e","c","o","n","d","s">>,
     <<"m">>, <<"m","i","n">>,
     <<"m","i","n","u","t","e">>,
     <<"m","i","n","u","t","e","s">>,
     <<"h">>, <<"h","r">>,
     <<"h","o","u","r">>,
     <<"h","o","u","r","s">>,
     <<"d">>, <<"d","a","y">>, <<"d","a","y","s">>}

\* the unit names tried: those of the switch, the micro sign and the Greek mu
\* of package time, and two names no table holds
UnitNames ==
    SwitchUnits \cup {<<"U+00B5","s">>, <<"U+03BC","s">>, <<"x">>, <<"x","y","z">>}

Capitalize(u) == <<ToUpperChar(u[1])>> \o Tail(u)

\* a unit name as written, in upper case, and with a capital first or last letter
CaseVariants(u) ==
    {u, ToUpper(u), Capitalize(u), Take(u, Len(u) - 1) \o <<ToUpperChar(u[Len(u)])>>}

UnitSpellings == UNION {CaseVariants(u) : u \in UnitNames}

\* digit strings before the decimal point
IntStrs == SeqsUpTo({"0", "1", "5"}, MaxIntDigits)

\* what follows them: nothing, a bare point, .5, .25, and a second point
FracStrs == {<<>>, <<".">>, <<".","5">>, <<".","2","5">>, <<".","5",".","5">>}

NumberStrs == {i \o f : i \in IntStrs, f \in FracStrs}

\* a number, then nothing or whitespace, then a unit spelling or nothing
SingleInputs ==
    {n \o g \o u : n \in NumberStrs,
                   g \in {<<>>, <<" ">>, <<" ", " ">>},
                   u \in UnitSpellings \cup {<<>>}}

\* the tokens composite strings are made of
CoreTokens ==
    {<<"1","h">>, <<"3","0","m">>, <<"2","7","s">>, <<"2","H">>,
     <<"1",".","5","d">>, <<"1","h","3","0","m">>, <<"-","5","s">>,
     <<"+","5","s">>, <<"5">>, <<"0">>, <<"s">>, <<"5","x","y","z">>}

\* up to MaxTokens tokens joined by whitespace, with or without whitespace
\* around them
CompositeInputs ==
    {lead \o Join(ts, sep) \o trail :
        ts \in SeqsUpTo(CoreTokens, MaxTokens),
        sep \in {<<" ">>, <<"\t", " ">>},
        lead \in {<<>>, <<" ">>},
        trail \in {<<>>, <<" ">>}}

\* testDurations of testDurationParsing
TestDurations ==
    {<<"3",".","5","d">>,
     <<"2","1","h"," ","4","0","m"," ","5","1","s">>,
     <<"1","h"," ","2","1","m"," ","2","7","s">>,
     <<"2","m">>,
     <<"1","m"," ","5","3","s">>,
     <<"4","2",".","9","s">>,
     <<"5","0","0","m","s">>}

Inputs == SingleInputs \cup CompositeInputs \cup TestDurations

---------------------------------------------------------------------------
(* Specification Spec: ParseDuration applied to one string *)

NoResult == [err |-> "none", d |-> ZeroDur]

Idle ==
    /\ file = <<>>
    /\ ioFault = 0
    /\ lineNo = 0
    /\ durationIdx = -1
    /\ totalDuration = ZeroDur
    /\ stdout = <<>>
    /\ stderr = <<>>
    /\ exitCode = -1

Init ==
    /\ durationStr \in Inputs
    /\ pc = "call"
    /\ ret = NoResult
    /\ Idle

\* dur, err := ParseDuration(durStr)
CallParseDuration ==
    /\ pc = "call"
    /\ ret' = ParseDuration(durationStr)
    /\ pc' = "done"
    /\ UNCHANGED <<durationStr, file, ioFault, lineNo, durationIdx,
                   totalDuration, stdout, stderr, exitCode>>

Next == CallParseDuration

Spec == Init /\ [][Next]_vars

---------------------------------------------------------------------------
(* The trace files calculateTotalDuration is applied to *)

RECURSIVE Split(_, _)
\* strings.Split(s, sep) for a one-character separator
Split(s, sep) ==
    LET k == PrefixNotIn(s, {sep})
    IN  IF k = Len(s) THEN <<s>>
        ELSE <<Take(s, k)>> \o Split(Drop(s, k + 1), sep)

ColId       == <<"i","d">>
ColDuration == <<"d","u","r","a","t","i","o","n">>
ColStatus   == <<"s","t","a","t","u","s">>
StrOk       == <<"o","k">>

\* header lines: the usual one, duration first, duration twice, no duration,
\* a capital D, and an empty line
HeaderLines ==
    {Join(<<ColId, ColDuration, ColStatus>>, <<"\t">>),
     Join(<<ColDuration, ColId>>, <<"\t">>),
     Join(<<ColId, ColDuration, ColDuration>>, <<"\t">>),
     Join(<<ColId, ColStatus>>, <<"\t">>),
     Join(<<ColId, <<"D","u","r","a","t","i","o","n">>, ColStatus>>, <<"\t">>),
     <<>>}

\* data rows: durations in the second and third columns or in the first, a
\* composite duration, fields that do not parse, an empty field, a row of one
\* field, and an empty line
RowLines ==
    {Join(<<<<"a">>, <<"1","h">>, StrOk>>, <<"\t">>),
     Join(<<<<"b">>, <<"3","0","m">>, StrOk>>, <<"\t">>),
     Join(<<<<"5","s">>, <<"1","h"," ","2","1","m"," ","2","7","s">>>>, <<"\t">>),
     Join(<<<<"c">>, <<"a","b","c">>, <<"2","H">>>>, <<"\t">>),
     Join(<<<<"e">>, <<>>, <<"5">>>>, <<"\t">>),
     <<"d">>,
     <<>>}

\* the empty file, and a header line followed by up to MaxRows data rows
Files ==
    {<<>>} \cup {<<h>> \o rows : h \in HeaderLines,
                                 rows \in SeqsUpTo(RowLines, MaxRows)}

---------------------------------------------------------------------------
(* calculateTotalDuration and main *)

\* FindDurationIdx with durationIdx starting at 0 instead of -1
FindDurationIdxFromZero(columns) ==
    IF \E i \in DOMAIN columns : columns[i] = ColDuration
    THEN (CHOOSE i \in DOMAIN columns :
             /\ columns[i] = ColDuration
             /\ \A j \in 1..(i - 1) : columns[j] # ColDuration) - 1
    ELSE 0

\* the loop over the header's columns: the index of the first column named
\* "duration", or -1
FindDurationIdx(columns) ==
    IF \E i \in DOMAIN columns : columns[i] = ColDuration
    THEN (CHOOSE i \in DOMAIN columns :
             /\ columns[i] = ColDuration
             /\ \A j \in 1..(i - 1) : columns[j] # ColDuration) - 1
    ELSE -1

\* scanner.Scan(): whether the scanner delivers another line
ScanOk == lineNo < Len(file) /\ ioFault # lineNo + 1

\* scanner.Err() once Scan has returned false
ScanErr == ioFault = lineNo + 1

\* duration, err := ParseDuration(durationStr): the warning, or the duration
RowParsed(text, r) ==
    IF ~IsOk(r)
    THEN [kind |-> "warn", text |-> text, err |-> r.err]
    ELSE [kind |-> "add", text |-> text, d |-> r.d]

\* RowOutcome with len(fields) <= durationIdx+1 as the test for a short row
RowOutcomeOffByOne(line, idx) ==
    IF Len(Split(line, "\t")) <= idx + 1 THEN [kind |-> "skip"]
    ELSE RowParsed(Split(line, "\t")[idx + 1],
                   ParseDuration(Split(line, "\t")[idx + 1]))

\* what the loop body does with one data line: skip it, warn about it, or
\* add its duration
RowOutcome(line, idx) ==
    LET fields == Split(line, "\t")
    IN  IF Len(fields) <= idx THEN [kind |-> "skip"]
        ELSE RowParsed(fields[idx + 1], ParseDuration(fields[idx + 1]))

InitFile ==
    /\ file \in Files
    /\ ioFault \in -1..(Len(file) + 1)
    /\ durationStr = <<>>
    /\ pc = "open"
    /\ ret = NoResult
    /\ lineNo = 0
    /\ durationIdx = -1
    /\ totalDuration = ZeroDur
    /\ stdout = <<>>
    /\ stderr = <<>>
    /\ exitCode = -1

\* os.Open fails
OpenFails ==
    /\ pc = "open"
    /\ ioFault = -1
    /\ ret' = Err("error opening file")
    /\ pc' = "returned"
    /\ UNCHANGED <<durationStr, file, ioFault, lineNo, durationIdx,
                   totalDuration, stdout, stderr, exitCode>>

\* os.Open succeeds
OpenFile ==
    /\ pc = "open"
    /\ ioFault # -1
    /\ pc' = "header"
    /\ UNCHANGED <<durationStr, ret, file, ioFault, lineNo, durationIdx,
                   totalDuration, stdout, stderr, exitCode>>

\* the first scanner.Scan() returns false
HeaderMissing ==
    /\ pc = "header"
    /\ ~ScanOk
    /\ ret' = Err("error reading header line")
    /\ pc' = "returned"
    /\ UNCHANGED <<durationStr, file, ioFault, lineNo, durationIdx,
                   totalDuration, stdout, stderr, exitCode>>

\* the header is read and has no duration column
ColumnMissing ==
    /\ pc = "header"
    /\ ScanOk
    /\ FindDurationIdx(Split(file[1], "\t")) = -1
    /\ lineNo' = 1
    /\ ret' = Err("duration column not found in input file")
    /\ pc' = "returned"
    /\ UNCHANGED <<durationStr, file, ioFault, durationIdx,
                   totalDuration, stdout, stderr, exitCode>>

\* the header is read and its duration column found
HeaderRead ==
    /\ pc = "header"
    /\ ScanOk
    /\ FindDurationIdx(Split(file[1], "\t")) # -1
    /\ lineNo' = 1
    /\ durationIdx' = FindDurationIdx(Split(file[1], "\t"))
    /\ totalDuration' = ZeroDur
    /\ pc' = "rows"
    /\ UNCHANGED <<durationStr, ret, file, ioFault, stdout, stderr, exitCode>>

\* a data line with too few fields: continue
SkipShortRow ==
    /\ pc = "rows"
    /\ ScanOk
    /\ RowOutcome(file[lineNo + 1], durationIdx).kind = "skip"
    /\ lineNo' = lineNo + 1
    /\ UNCHANGED <<durationStr, pc, ret, file, ioFault, durationIdx,
                   totalDuration, stdout, stderr, exitCode>>

\* a data line whose duration does not parse: fmt.Printf the warning, continue
WarnBadRow ==
    /\ pc = "rows"
    /\ ScanOk
    /\ \E o \in {RowOutcome(file[lineNo + 1], durationIdx)} :
           /\ o.kind = "warn"
           /\ durationStr' = o.text
           /\ stdout' = Append(stdout, [kind |-> "Warning: error parsing duration",
                                        text |-> o.text, err |-> o.err])
    /\ lineNo' = lineNo + 1
    /\ UNCHANGED <<pc, ret, file, ioFault, durationIdx,
                   totalDuration, stderr, exitCode>>

\* a data line whose duration parses: totalDuration += duration
AddRow ==
    /\ pc = "rows"
    /\ ScanOk
    /\ \E o \in {RowOutcome(file[lineNo + 1], durationIdx)} :
           /\ o.kind = "add"
           /\ durationStr' = o.text
           /\ totalDuration' = DAdd(totalDuration, o.d)
    /\ lineNo' = lineNo + 1
    /\ UNCHANGED <<pc, ret, file, ioFault, durationIdx, stdout, stderr, exitCode>>

\* scanner.Scan() returns false on a read error: the total is dropped
ScanFails ==
    /\ pc = "rows"
    /\ ~ScanOk
    /\ ScanErr
    /\ ret' = Err("error scanning file")
    /\ pc' = "returned"
    /\ UNCHANGED <<durationStr, file, ioFault, lineNo, durationIdx,
                   totalDuration, stdout, stderr, exitCode>>

\* scanner.Scan() returns false at the end of the file: return totalDuration
ReturnTotal ==
    /\ pc = "rows"
    /\ ~ScanOk
    /\ ~ScanErr
    /\ ret' = Ok(totalDuration)
    /\ pc' = "returned"
    /\ UNCHANGED <<durationStr, file, ioFault, lineNo, durationIdx,
                   totalDuration, stdout, stderr, exitCode>>

\* main: fmt.Fprintf(os.Stderr, "Error: ..."); os.Exit(1)
MainError ==
    /\ pc = "returned"
    /\ ~IsOk(ret)
    /\ stderr' = Append(stderr, [kind |-> "Error", err |-> ret.err])
    /\ exitCode' = 1
    /\ pc' = "exit"
    /\ UNCHANGED <<durationStr, ret, file, ioFault, lineNo, durationIdx,
                   totalDuration, stdout>>

\* main: the total, its h/m/s breakdown and its minutes to two decimals (in
\* hundredths of a minute, rounded to nearest); the totals of Files are >= 0
MainPrint ==
    /\ pc = "returned"
    /\ IsOk(ret)
    /\ stdout' = stdout \o
         <<[kind |-> "Total duration", d |-> ret.d],
           [kind |-> "Total duration hms",
            hours   |-> ret.d.sec \div 3600,
            minutes |-> (ret.d.sec \div 60) % 60,
            seconds |-> ret.d.sec % 60],
           [kind |-> "Total minutes",
            hundredths |-> (ret.d.sec * 10 + (ret.d.nsec \div 100000000) + 3) \div 6]>>
    /\ exitCode' = 0
    /\ pc' = "exit"
    /\ UNCHANGED <<durationStr, ret, file, ioFault, lineNo, durationIdx,
                   totalDuration, stderr>>

NextFile ==
    \/ OpenFails
    \/ OpenFile
    \/ HeaderMissing
    \/ ColumnMissing
    \/ HeaderRead
    \/ SkipShortRow
    \/ WarnBadRow
    \/ AddRow
    \/ ScanFails
    \/ ReturnTotal
    \/ MainError
    \/ MainPrint

SpecFile == InitFile /\ [][NextFile]_vars

---------------------------------------------------------------------------
(* Vocabulary of the properties of ParseDuration *)

\* a non-empty string of digits
IsWholeNumber(n) == n # <<>> /\ \A i \in DOMAIN n : IsDigit(n[i])

\* digits with at most one '.', and at least one digit
IsDecimalNumber(n) ==
    /\ \A i \in DOMAIN n : IsDigitOrDot(n[i])
    /\ \E i \in DOMAIN n : IsDigit(n[i])
    /\ Cardinality({i \in DOMAIN n : n[i] = "."}) <= 1

\* the unit table of the specification: the names of the switch and the micro
\* sign spelling
TableUnits == SwitchUnits \cup {<<"U+00B5","s">>}

\* the scale factor the unit table gives a unit name
TableScale(u) ==
    CASE u \in {<<"n","s">>,
                <<"n","a","n","o","s","e","c","o","n","d">>,
                <<"n","a","n","o","s","e","c","o","n","d","s">>}
           -> Nanosecond
      [] u \in {<<"u","s">>, <<"U+00B5","s">>, <<"U+00C2","U+00B5","s">>,
                <<"m","i","c","r","o","s","e","c","o","n","d">>,
                <<"m","i","c","r","o","s","e","c","o","n","d","s">>}
           -> Microsecond
      [] u \in {<<"m","s">>,
                <<"m","i","l","l","i","s","e","c","o","n","d">>,
                <<"m","i","l","l","i","s","e","c","o","n","d","s">>}
           -> Millisecond
      [] u \in {<<"s">>, <<"s","e","c">>, <<"s","e","c","o","n","d">>,
                <<"s","e","c","o","n","d","s">>}
           -> OneSecond
      [] u \in {<<"m">>, <<"m","i","n">>, <<"m","i","n","u","t","e">>,
                <<"m","i","n","u","t","e","s">>}
           -> Minute
      [] u \in {<<"h">>, <<"h","r">>, <<"h","o","u","r">>,
                <<"h","o","u","r","s">>}
           -> Hour
      [] u \in {<<"d">>, <<"d","a","y">>, <<"d","a","y","s">>}
           -> Dur(86400, 0)

\* the same duration, or an error in both cases
SameOutcome(a, b) == IsOk(a) = IsOk(b) /\ a.d = b.d

\* the whitespace-separated tokens of a string
Tokens(s) == Fields(s)

\* the leading run of digits and dots of the argument, and what follows it
NumberPart == Take(durationStr, PrefixIn(durationStr, DigitOrDotSet))
AfterNumber == Drop(durationStr, PrefixIn(durationStr, DigitOrDotSet))

Returned == pc = "done"

---------------------------------------------------------------------------
(* C1 *)

\* C1: for every unit name u of the unit table and every whole number n,
\* ParseDuration of n immediately followed by u succeeds and returns exactly
\* n times the scale factor of u.
C1_ExactScaling ==
    (Returned /\ IsWholeNumber(NumberPart) /\ AfterNumber \in TableUnits)
        => ret = Ok(MulInt(DecVal(NumberPart), TableScale(AfterNumber)))

---------------------------------------------------------------------------
(* C2 *)

\* every token of the argument parses on its own, and there is at least one
AllTokensParse ==
    /\ Tokens(durationStr) # <<>>
    /\ \A i \in DOMAIN Tokens(durationStr) :
           IsOk(ParseDuration(Tokens(durationStr)[i]))

RECURSIVE TokenSum(_)
\* the sum of ParseDuration applied to each token of a sequence
TokenSum(ts) ==
    IF ts = <<>> THEN ZeroDur
    ELSE DAdd(ParseDuration(Head(ts)).d, TokenSum(Tail(ts)))

\* C2: when every whitespace-separated token of the string parses on its own,
\* ParseDuration of the whole string succeeds and returns the sum of
\* ParseDuration of the tokens.
C2_SumOfTokens ==
    (Returned /\ AllTokensParse)
        => ret = Ok(TokenSum(Tokens(durationStr)))

\* three tokens, one of them in a non-standard spelling, have been summed
C2_Witness ==
    /\ Returned
    /\ AllTokensParse
    /\ Len(Tokens(durationStr)) = 3
    /\ Tokens(durationStr)[1] # Tokens(durationStr)[2]
    /\ Tokens(durationStr)[2] # Tokens(durationStr)[3]
    /\ \E i \in 1..3 : ~IsOk(StdParseDuration(Tokens(durationStr)[i]))
    /\ \A i \in 1..3 : ParseDuration(Tokens(durationStr)[i]).d # ZeroDur
    /\ IsOk(ret)

---------------------------------------------------------------------------
(* C3 *)

\* a token with a digit and a unit character
HasNumberAndUnit(t) ==
    /\ \E i \in DOMAIN t : IsDigit(t[i])
    /\ \E i \in DOMAIN t : ~IsDigitOrDot(t[i]) /\ t[i] \notin {"-", "+"}

\* C3: ParseDuration fails on the empty string and on a string of whitespace
\* only, and never succeeds on a string with no number-and-unit token.
C3_EmptyFails ==
    Returned =>
        /\ (Tokens(durationStr) = <<>> => ~IsOk(ret))
        /\ (IsOk(ret) => \E i \in DOMAIN Tokens(durationStr) :
                             HasNumberAndUnit(Tokens(durationStr)[i]))

---------------------------------------------------------------------------
(* C4 *)

\* C4 as stated: ParseDuration fails whenever the string is a bare number
\* with no unit, or has such a token, "0" included.
C4_BareNumberFails ==
    (Returned /\ \E i \in DOMAIN Tokens(durationStr) :
                     IsWholeNumber(Tokens(durationStr)[i]))
        => ~IsOk(ret)

\* C4 as amended: ParseDuration fails, returning no duration, whenever the
\* string is or has as a token a bare number other than the single digit "0";
\* the string "0" itself parses as the zero duration.
C4_BareNumberFailsExceptZero ==
    Returned =>
        /\ (\E i \in DOMAIN Tokens(durationStr) :
               /\ IsWholeNumber(Tokens(durationStr)[i])
               /\ Tokens(durationStr)[i] # <<"0">>)
             => (~IsOk(ret) /\ ret.d = ZeroDur)
        /\ durationStr = <<"0">> => ret = Ok(ZeroDur)

\* a bare number after a token that parses has made the parse fail
C4_Witness ==
    /\ Returned
    /\ Len(Tokens(durationStr)) >= 2
    /\ IsOk(ParseDuration(Tokens(durationStr)[1]))
    /\ IsWholeNumber(Tokens(durationStr)[2])
    /\ Tokens(durationStr)[2] # <<"0">>
    /\ ~IsOk(ret)

---------------------------------------------------------------------------
(* C7 *)

\* C7: unit names are case-insensitive: a number followed by any upper/lower
\* case variant of a unit name of the table gives the same outcome as the
\* number followed by the unit name itself.
C7_CaseInsensitive ==
    Returned =>
        \A u \in TableUnits :
            AfterNumber \in CaseVariants(u)
                => SameOutcome(ret, ParseDuration(NumberPart \o u))

---------------------------------------------------------------------------
(* C8 *)

\* a decimal number followed by one purely alphabetic unit and nothing else
IsNumberUnit(t) ==
    \E k \in 1..(Len(t) - 1) :
        /\ IsDecimalNumber(Take(t, k))
        /\ \A i \in (k + 1)..Len(t) : IsAsciiLetter(t[i])

\* the unit names of Go's duration strings
StdUnitNames ==
    {<<"n","s">>, <<"u","s">>, <<"U+00B5","s">>, <<"U+03BC","s">>,
     <<"m","s">>, <<"s">>, <<"m">>, <<"h">>}

\* one number-unit pair of a Go duration string
IsStdPair(p) ==
    \E k \in 1..(Len(p) - 1) :
        IsDecimalNumber(Take(p, k)) /\ Drop(p, k) \in StdUnitNames

RECURSIVE IsStdPairs(_)
\* one or more such pairs
IsStdPairs(s) ==
    \E k \in 1..Len(s) :
        IsStdPair(Take(s, k)) /\ (k = Len(s) \/ IsStdPairs(Drop(s, k)))

\* a Go duration string: an optional sign, then "0" or number-unit pairs
IsStdSyntax(t) ==
    LET body == IF t # <<>> /\ t[1] \in {"-", "+"} THEN Tail(t) ELSE t
    IN  body = <<"0">> \/ IsStdPairs(body)

\* C8 as stated: ParseDuration succeeds only when every token is a decimal
\* number followed by one alphabetic unit, and never returns a negative
\* duration.
C8_StrictGrammar ==
    (Returned /\ IsOk(ret)) =>
        /\ \A i \in DOMAIN Tokens(durationStr) :
               IsNumberUnit(Tokens(durationStr)[i])
        /\ ~IsNegative(ret.d)

\* C8 as amended: ParseDuration succeeds only when every token is a Go
\* duration string (an optional sign, then "0" or one or more number-unit
\* pairs with the units ns, us, micro-s, ms, s, m, h) or a decimal number
\* followed by one alphabetic unit and nothing else.
C8_StdOrNumberUnit ==
    (Returned /\ IsOk(ret)) =>
        \A i \in DOMAIN Tokens(durationStr) :
            \/ IsStdSyntax(Tokens(durationStr)[i])
            \/ IsNumberUnit(Tokens(durationStr)[i])

\* a signed token, a packed token and a token in a non-standard spelling
\* were accepted together
C8_Witness ==
    /\ Returned
    /\ IsOk(ret)
    /\ \E i \in DOMAIN Tokens(durationStr) : Tokens(durationStr)[i][1] = "-"
    /\ \E i \in DOMAIN Tokens(durationStr) :
           /\ IsStdSyntax(Tokens(durationStr)[i])
           /\ ~IsNumberUnit(Tokens(durationStr)[i])
           /\ Tokens(durationStr)[i][1] \notin {"-", "+"}
           /\ Tokens(durationStr)[i] # <<"0">>
    /\ \E i \in DOMAIN Tokens(durationStr) :
           ~IsStdSyntax(Tokens(durationStr)[i])

---------------------------------------------------------------------------
(* C10 *)

\* C10: a number, one or more spaces, then a unit name of the table parses
\* to the same duration as the number immediately followed by the unit name.
C10_SpaceBeforeUnit ==
    LET gap  == PrefixIn(AfterNumber, SpaceSet)
        unit == Drop(AfterNumber, gap)
    IN  (Returned /\ IsDecimalNumber(NumberPart) /\ gap >= 1
            /\ unit \in TableUnits)
          => (IsOk(ret) /\ SameOutcome(ret, ParseDuration(NumberPart \o unit)))

---------------------------------------------------------------------------
(* Vocabulary of the properties of calculateTotalDuration *)

\* the columns of the header line
HeaderColumns == Split(file[1], "\t")

\* the header line has a column named exactly "duration"
HasDurationColumn ==
    file # <<>> /\ \E i \in DOMAIN HeaderColumns : HeaderColumns[i] = ColDuration

\* the position (from 1) of the first such column
DurationColumn ==
    CHOOSE i \in DOMAIN HeaderColumns :
        /\ HeaderColumns[i] = ColDuration
        /\ \A j \in DOMAIN HeaderColumns : HeaderColumns[j] = ColDuration => i <= j

\* line k has a field in the duration column
RowHasField(k) == Len(Split(file[k], "\t")) >= DurationColumn

RowField(k) == Split(file[k], "\t")[DurationColumn]

\* line k has the field and the field parses
RowCounts(k) == RowHasField(k) /\ IsOk(ParseDuration(RowField(k)))

\* line k has the field and the field does not parse
RowFailsToParse(k) == RowHasField(k) /\ ~IsOk(ParseDuration(RowField(k)))

RECURSIVE TotalUpTo(_)
\* the sum of ParseDuration of the duration field over the data rows among
\* lines 2..k that count
TotalUpTo(k) ==
    IF k <= 1 THEN ZeroDur
    ELSE IF RowCounts(k)
         THEN DAdd(TotalUpTo(k - 1), ParseDuration(RowField(k)).d)
         ELSE TotalUpTo(k - 1)

\* the number of data rows among lines 2..k whose field fails to parse
FailedUpTo(k) == Cardinality({i \in 2..k : RowFailsToParse(i)})

Warnings(stream) ==
    SelectSeq(stream, LAMBDA e : e.kind = "Warning: error parsing duration")

HasReturned == pc \in {"returned", "exit"}

---------------------------------------------------------------------------
(* C5 *)

\* header id/duration/status with the rows a/1h/ok and b/30m/ok
NinetyMinutesFile ==
    <<Join(<<ColId, ColDuration, ColStatus>>, <<"\t">>),
      Join(<<<<"a">>, <<"1","h">>, StrOk>>, <<"\t">>),
      Join(<<<<"b">>, <<"3","0","m">>, StrOk>>, <<"\t">>)>>

\* C5: for a file that is read without error and whose header has a duration
\* column, calculateTotalDuration returns without error the sum of
\* ParseDuration of the field in the first duration column over exactly the
\* data rows that have the field and whose field parses; the running total
\* is that sum over the rows read so far, and the rows 1h and 30m give 90
\* minutes.
C5_TotalOfParsedRows ==
    /\ pc = "rows" => totalDuration = TotalUpTo(lineNo)
    /\ (HasReturned /\ ioFault = 0 /\ HasDurationColumn)
          => ret = Ok(TotalUpTo(Len(file)))
    /\ (HasReturned /\ ioFault = 0 /\ file = NinetyMinutesFile)
          => ret = Ok(MulInt(90, Minute))

\* a short row, then a row that fails to parse, then a row that counts: the
\* total returned is that of the last row
C5_Witness ==
    /\ HasReturned
    /\ ioFault = 0
    /\ HasDurationColumn
    /\ Len(file) = 4
    /\ ~RowHasField(2)
    /\ RowFailsToParse(3)
    /\ RowCounts(4)
    /\ IsOk(ret)
    /\ ret.d # ZeroDur
    /\ ret.d = ParseDuration(RowField(4)).d

---------------------------------------------------------------------------
(* C6 *)

\* C6: when the file is empty or its header has no column named "duration",
\* calculateTotalDuration returns an error and a zero total, and no data row
\* is read, parsed, added to the total or warned about.
C6_BadHeaderAborts ==
    (file = <<>> \/ ~HasDurationColumn) =>
        /\ pc # "rows"
        /\ lineNo <= 1
        /\ durationStr = <<>>
        /\ totalDuration = ZeroDur
        /\ Warnings(stdout) = <<>>
        /\ Warnings(stderr) = <<>>
        /\ HasReturned => (~IsOk(ret) /\ ret.d = ZeroDur)

\* a file that opens and reads, with a header that lacks the column and data
\* rows after it, has been refused
C6_Witness ==
    /\ HasReturned
    /\ ioFault = 0
    /\ Len(file) >= 3
    /\ ~HasDurationColumn
    /\ \E i \in DOMAIN HeaderColumns : HeaderColumns[i] = ColId
    /\ \A k \in 2..3 :
           /\ Len(Split(file[k], "\t")) >= 2
           /\ IsOk(ParseDuration(Split(file[k], "\t")[2]))
           /\ ParseDuration(Split(file[k], "\t")[2]).d # ZeroDur
    /\ ret = Err("duration column not found in input file")

---------------------------------------------------------------------------
(* C9 *)

\* C9: while the rows are read, each data row whose field failed to parse
\* has put exactly one warning on the error stream and nothing on standard
\* output; rows that parse and short rows have put none.
C9_WarningsOnStderr ==
    pc = "rows" =>
        /\ Len(Warnings(stderr)) = FailedUpTo(lineNo)
        /\ stdout = <<>>

====
